---------------------------- MODULE Spec2Model ----------------------------
(***************************************************************************)
(* A model of the Splunk MCP server of src/splunk_mcp_server.py: the tool  *)
(* dispatcher call_tool, the session kept in self.splunk_service, the      *)
(* eight query compilers and the job executor search_splunk, run against a *)
(* backend whose answers (connect succeeds or fails, a job is done or not, *)
(* a call raises, the rows it returns) are chosen nondeterministically.    *)
(***************************************************************************)
EXTENDS Integers, Sequences, FiniteSets, TLC

(***************************************************************************)
(* Bounds of the model.                                                    *)
(***************************************************************************)
NumCalls == 2          \* call slots (tool calls that may exist at once)
MaxPolls == 2          \* the per-call poll counter saturates here
MaxOps == 2            \* the other per-call operation counters saturate here
MaxSessions == 2       \* sessions the backend hands out before refusing
MaxBackendRows == 22   \* longest row list the backend returns

(***************************************************************************)
(* Program constants.                                                      *)
(***************************************************************************)
MAX_ROWS == 20
DefaultLimit == 50
DefaultThreshold == 5
DefaultThresholdMb == 100

Calls == 1..NumCalls

(***************************************************************************)
(* Python values that occur as tool arguments: None, str, int.             *)
(***************************************************************************)
PyNone == [t |-> "none", s |-> "", i |-> 0]
PyStr(x) == [t |-> "str", s |-> x, i |-> 0]
PyInt(n) == [t |-> "int", s |-> "", i |-> n]

Digit == <<"0", "1", "2", "3", "4", "5", "6", "7", "8", "9">>

RECURSIVE NatToStr(_)
NatToStr(n) == IF n < 10 THEN Digit[n + 1]
               ELSE NatToStr(n \div 10) \o Digit[(n % 10) + 1]

\* str(v), as an f-string field {v} renders it
Format(v) == CASE v.t = "none" -> "None"
               [] v.t = "str" -> v.s
               [] v.t = "int" -> IF v.i < 0 THEN "-" \o NatToStr(0 - v.i)
                                 ELSE NatToStr(v.i)

(***************************************************************************)
(* The argument object handed to call_tool: a mapping, or (the parameter   *)
(* is typed Any) an object without .get, here None.                        *)
(***************************************************************************)
ArgMap(m) == [isMap |-> TRUE, m |-> m]
ArgNone == [isMap |-> FALSE, m |-> <<>>]

\* arguments.get(key, default)
Get(a, key, default) == IF key \in DOMAIN a.m THEN a.m[key] ELSE default

Min(a, b) == IF a <= b THEN a ELSE b

\* seq[:n]
Take(seq, n) == SubSeq(seq, 1, Min(Len(seq), n))


(***************************************************************************)
(* The tool registry of list_tools: names, required parameters, enums.     *)
(***************************************************************************)
ToolNames == {"search_splunk", "get_security_alerts", "investigate_ip",
              "investigate_user", "get_threat_intel", "get_security_metrics",
              "analyze_failed_logins", "detect_data_exfiltration"}

\* "required": [...] of each inputSchema
Required(tool) == CASE tool = "search_splunk" -> {"query"}
                    [] tool = "investigate_ip" -> {"ip_address"}
                    [] tool = "investigate_user" -> {"username"}
                    [] OTHER -> {}

\* the parameter of each tool whose inputSchema carries an "enum"
EnumParam(tool) == CASE tool = "get_security_alerts" -> {"severity"}
                     [] tool = "get_threat_intel" -> {"ioc_type"}
                     [] tool = "get_security_metrics" -> {"metric_type"}
                     [] OTHER -> {}

EnumValues(tool) ==
    CASE tool = "get_security_alerts" ->
             {"critical", "high", "medium", "low", "all"}
      [] tool = "get_threat_intel" -> {"ip", "domain", "hash", "url", "all"}
      [] tool = "get_security_metrics" ->
             {"alerts", "incidents", "response_time", "threat_trends", "all"}
      [] OTHER -> {}

(***************************************************************************)
(* The query compilers.  A query is the text of the f-string with its      *)
(* line breaks and indentation written as single spaces.                   *)
(***************************************************************************)
Compiled(q, e, l) == [query |-> q, earliest |-> e, latest |-> l]

AlertsQuery(severity, limit) ==
    LET severity_filter == IF severity = PyStr("all") THEN ""
                           ELSE "severity=\"" \o Format(severity) \o "\""
    IN "search index=* sourcetype=* " \o severity_filter
       \o " | where isnotnull(severity) OR isnotnull(signature) OR isnotnull(alert_type)"
       \o " | head " \o Format(limit)
       \o " | table _time, src_ip, dest_ip, user, severity, signature, category, action, message"
       \o " | sort - _time"

IpQuery(ip_address) ==
    "search index=* (" \o Format(ip_address) \o ")"
    \o " | stats count by sourcetype, action, dest_ip, dest_port, signature"
    \o " | sort - count"

UserQuery(username) ==
    "search index=* user=\"" \o Format(username) \o "\" OR src_user=\""
    \o Format(username) \o "\""
    \o " | stats count by action, src_ip, dest, sourcetype, status"
    \o " | sort - count"

ThreatIntelQuery(ioc_type) ==
    "search index=* (threat OR malware OR suspicious OR ioc)"
    \o " | stats count by src_ip, dest_ip, signature, category, severity"
    \o " | where count > 1 | sort - count"

SeverityCountQuery == "search index=* severity=* | stats count by severity | eval total=sum(count)"
ThreatTrendQuery == "search index=* (threat OR attack OR malware) | timechart span=1h count by category"
SourcetypeCountQuery == "search index=* | stats count by sourcetype | sort - count"

\* MetricsQuery with "all" left to the fallback branch
MetricsQueryAllFallback(metric_type) ==
    IF metric_type = PyStr("alerts")
    THEN SeverityCountQuery
    ELSE IF metric_type = PyStr("threat_trends")
    THEN ThreatTrendQuery
    ELSE SourcetypeCountQuery

MetricsQuery(metric_type) ==
    IF metric_type = PyStr("alerts") \/ metric_type = PyStr("all")
    THEN SeverityCountQuery
    ELSE IF metric_type = PyStr("threat_trends")
    THEN ThreatTrendQuery
    ELSE SourcetypeCountQuery

FailedLoginsQuery(threshold) ==
    "search index=* (failed OR failure OR invalid) (login OR authentication OR logon)"
    \o " | stats count by user, src_ip"
    \o " | where count >= " \o Format(threshold) \o " | sort - count"

ExfiltrationQuery(threshold_mb) ==
    "search index=* bytes > 0 | eval mb = bytes/1024/1024"
    \o " | stats sum(mb) as total_mb by src_ip, dest_ip, user"
    \o " | where total_mb > " \o Format(threshold_mb) \o " | sort - total_mb"

\* The if/elif chain of call_tool for a registered tool and a mapping a:
\* the arguments with their defaults, and the wrapper's call of search_splunk.
Compile(tool, a) ==
    CASE tool = "search_splunk" ->
             Compiled(Get(a, "query", PyNone),
                      Get(a, "earliest_time", PyStr("-1h")),
                      Get(a, "latest_time", PyStr("now")))
      [] tool = "get_security_alerts" ->
             Compiled(PyStr(AlertsQuery(Get(a, "severity", PyStr("all")),
                                        Get(a, "limit", PyInt(DefaultLimit)))),
                      Get(a, "time_range", PyStr("-24h")), PyStr("now"))
      [] tool = "investigate_ip" ->
             Compiled(PyStr(IpQuery(Get(a, "ip_address", PyNone))),
                      Get(a, "time_range", PyStr("-24h")), PyStr("now"))
      [] tool = "investigate_user" ->
             Compiled(PyStr(UserQuery(Get(a, "username", PyNone))),
                      Get(a, "time_range", PyStr("-24h")), PyStr("now"))
      [] tool = "get_threat_intel" ->
             Compiled(PyStr(ThreatIntelQuery(Get(a, "ioc_type", PyStr("all")))),
                      Get(a, "time_range", PyStr("-7d")), PyStr("now"))
      [] tool = "get_security_metrics" ->
             Compiled(PyStr(MetricsQuery(Get(a, "metric_type", PyStr("all")))),
                      Get(a, "time_range", PyStr("-24h")), PyStr("now"))
      [] tool = "analyze_failed_logins" ->
             Compiled(PyStr(FailedLoginsQuery(Get(a, "threshold", PyInt(DefaultThreshold)))),
                      Get(a, "time_range", PyStr("-1h")), PyStr("now"))
      [] tool = "detect_data_exfiltration" ->
             Compiled(PyStr(ExfiltrationQuery(Get(a, "threshold_mb", PyInt(DefaultThresholdMb)))),
                      Get(a, "time_range", PyStr("-1h")), PyStr("now"))

NoQuery == Compiled(PyNone, PyNone, PyNone)

(***************************************************************************)
(* Text payloads.  TextContent.text is a plain string or the json.dumps of *)
(* a document; the document is kept as a record.                           *)
(***************************************************************************)
\* A JSON object: the set of its keys, and the value of each key it has.
Doc(keys, error, query, event_count, time_range, results, message) ==
    [keys |-> keys, error |-> error, query |-> query,
     event_count |-> event_count, time_range |-> time_range,
     results |-> results, message |-> message]
NoDoc == Doc({}, "", PyNone, 0, "", <<>>, "")

Plain(s) == [kind |-> "plain", text |-> s, doc |-> NoDoc]
Json(d) == [kind |-> "json", text |-> "", doc |-> d]
NoPayload == [kind |-> "none", text |-> "", doc |-> NoDoc]

ConnectErrorText == Plain("Error: Failed to connect to Splunk. Check connection settings.")
UnknownToolText(tool) == Plain("Unknown tool: " \o tool)
ExecErrorText(tool, msg) == Plain("Error executing " \o tool \o ": " \o msg)
SearchErrorJson(msg) == Json(Doc({"error"}, msg, PyNone, 0, "", <<>>, ""))

\* str(e) of the exceptions the model raises
MsgNoGet == "'NoneType' object has no attribute 'get'"
MsgNoJobs == "'NoneType' object has no attribute 'jobs'"
MsgConnLost == "[Errno 111] Connection refused"
MsgBadQuery == "HTTP 400 Bad Request -- Error in 'search' command"
MsgBadJson == "Expecting value: line 1 column 1 (char 0)"

(***************************************************************************)
(* The backend's answer to job.results(): the text read from the stream,   *)
(* kept as whether it is well-formed JSON, whether the object has a        *)
(* 'results' key, and the rows under it.  A row is kept as its identity.   *)
(***************************************************************************)
RowList(n, rev) == [i \in 1..n |-> IF rev THEN n + 1 - i ELSE i]
Raw(wf, has, rows) == [wellFormed |-> wf, hasResults |-> has, rows |-> rows]
NoRaw == Raw(FALSE, FALSE, <<>>)
BackendPayloads ==
    {Raw(FALSE, FALSE, <<>>), Raw(TRUE, FALSE, <<>>)}
    \cup {Raw(TRUE, TRUE, RowList(n, rev)) : n \in 0..MaxBackendRows, rev \in BOOLEAN}

\* FormatResults with event_count taken after the slice
FormatResultsCountAfterSlice(q, data) ==
    IF data.hasResults /\ data.rows # <<>>
    THEN Json(Doc({"query", "event_count", "time_range", "results"}, "",
                  q.query, Len(Take(data.rows, MAX_ROWS)),
                  Format(q.earliest) \o " to " \o Format(q.latest),
                  Take(data.rows, MAX_ROWS), ""))
    ELSE Json(Doc({"query", "event_count", "message"}, "",
                  q.query, 0, "", <<>>, "No results found"))

\* lines 298-311: the result envelope built from the parsed payload
FormatResults(q, data) ==
    IF data.hasResults /\ data.rows # <<>>
    THEN Json(Doc({"query", "event_count", "time_range", "results"}, "",
                  q.query, Len(data.rows),
                  Format(q.earliest) \o " to " \o Format(q.latest),
                  Take(data.rows, MAX_ROWS), ""))
    ELSE Json(Doc({"query", "event_count", "message"}, "",
                  q.query, 0, "", <<>>, "No results found"))

(***************************************************************************)
(* The calls a client makes: a tool name and an argument object.           *)
(***************************************************************************)
Args0 == ArgMap(<<>>)
Args1(k, v) == ArgMap(k :> v)
Input(tool, a) == [name |-> tool, arguments |-> a]
CallInputs ==
    { Input("search_splunk", Args1("query", PyStr("index=main error"))),
      Input("search_splunk", Args0),
      Input("search_splunk", ArgNone),
      Input("get_security_alerts", Args0),
      Input("get_security_alerts",
            ArgMap("severity" :> PyStr("high") @@ "time_range" :> PyStr("-6h")
                   @@ "limit" :> PyInt(10))),
      Input("get_security_alerts", Args1("severity", PyStr("urgent"))),
      Input("investigate_ip", Args1("ip_address", PyStr("10.0.0.5"))),
      Input("investigate_ip", Args0),
      Input("investigate_user", Args1("username", PyStr("jsmith"))),
      Input("investigate_user", Args1("time_range", PyStr("-7d"))),
      Input("get_threat_intel", Args1("ioc_type", PyStr("ip"))),
      Input("get_threat_intel", Args1("ioc_type", PyStr("email"))),
      Input("get_security_metrics", Args0),
      Input("get_security_metrics", Args1("metric_type", PyStr("alerts"))),
      Input("get_security_metrics", Args1("metric_type", PyStr("all"))),
      Input("get_security_metrics", Args1("metric_type", PyStr("threat_trends"))),
      Input("get_security_metrics", Args1("metric_type", PyStr("incidents"))),
      Input("get_security_metrics", Args1("metric_type", PyStr("uptime"))),
      Input("analyze_failed_logins", Args0),
      Input("analyze_failed_logins", Args1("threshold", PyInt(3))),
      Input("detect_data_exfiltration", Args1("threshold_mb", PyInt(50))),
      Input("restart_splunk", Args0),
      Input("restart_splunk", ArgNone) }

(***************************************************************************)
(* State.                                                                  *)
(***************************************************************************)
VARIABLES
    mainpc,          \* main(): "startup" before its connect, then "serving"
    splunk_service,  \* self.splunk_service: 0 is None, k the k-th session
    sessions,        \* backend: sessions established so far
    alive,           \* backend: sessions whose connection still works
    sessionLost,     \* a call has returned an error raised by a dead session
    running,         \* event loop: the call that holds it, 0 when it is free
    pc,              \* per call: where it stands in call_tool / search_splunk
    name,            \* per call: the tool name
    arguments,       \* per call: the argument object
    compiled,        \* per call: query, earliest_time, latest_time
    job,             \* per call: the job created by jobs.create
    fetched,         \* per call: what job.results() returned
    ret,             \* per call: the payload returned
    failure,         \* per call: class of the failure that ended it
    trace            \* per call: the backend operations it performed

vars == <<mainpc, splunk_service, sessions, alive, sessionLost, running, pc,
          name, arguments, compiled, job, fetched, ret, failure, trace>>

NoJob == [exists |-> FALSE, sess |-> 0, done |-> FALSE]
NoTrace == [connects |-> 0, connected |-> "none", creates |-> 0, polls |-> 0,
            sawDone |-> FALSE, sleeps |-> 0, fetches |-> 0, entrySvc |-> 0,
            retry |-> FALSE]

Init ==
    /\ mainpc = "startup"
    /\ splunk_service = 0
    /\ sessions = 0
    /\ alive = {}
    /\ sessionLost = FALSE
    /\ running = 0
    /\ pc = [c \in Calls |-> "idle"]
    /\ name = [c \in Calls |-> ""]
    /\ arguments = [c \in Calls |-> ArgNone]
    /\ compiled = [c \in Calls |-> NoQuery]
    /\ job = [c \in Calls |-> NoJob]
    /\ fetched = [c \in Calls |-> NoRaw]
    /\ ret = [c \in Calls |-> NoPayload]
    /\ failure = [c \in Calls |-> "none"]
    /\ trace = [c \in Calls |-> NoTrace]

(***************************************************************************)
(* Helpers of the actions.                                                 *)
(***************************************************************************)
Bump(n, max) == IF n < max THEN n + 1 ELSE n

\* a return statement of call_tool: the call ends with a payload and the
\* event loop is free again
Return(c, payload, class) ==
    /\ pc' = [pc EXCEPT ![c] = "returned"]
    /\ ret' = [ret EXCEPT ![c] = payload]
    /\ failure' = [failure EXCEPT ![c] = class]
    /\ running' = 0

\* SearchExcept submitting the query again instead of returning
SearchExceptRetry(c, msg, class) ==
    /\ pc' = [pc EXCEPT ![c] = "submit"]
    /\ sessionLost' = (sessionLost \/ msg = MsgConnLost)
    /\ UNCHANGED <<ret, failure, running>>

\* lines 313-314: search_splunk catches every exception and returns its text
SearchExcept(c, msg, class) ==
    /\ Return(c, SearchErrorJson(msg), class)
    /\ sessionLost' = (sessionLost \/ msg = MsgConnLost)

\* lines 272-276: the handler of call_tool's own try block
CallToolExcept(c, msg, class) ==
    /\ Return(c, ExecErrorText(name[c], msg), class)
    /\ UNCHANGED sessionLost

\* what client.connect can do: succeed (while the backend still hands out
\* sessions) or raise
ConnectOutcomes == IF sessions < MaxSessions THEN BOOLEAN ELSE {FALSE}

\* lines 26-39: connect_to_splunk; ok is its return value
connect_to_splunk(ok) ==
    IF ok
    THEN /\ sessions' = sessions + 1
         /\ splunk_service' = sessions + 1
         /\ alive' = alive \cup {sessions + 1}
    ELSE UNCHANGED <<sessions, splunk_service, alive>>

\* NeedsConnect connecting on every call
NeedsConnectAlways(svc) == TRUE

\* NeedsConnect never connecting from a tool call
NeedsConnectNever(svc) == FALSE

\* LoopAllows of preemptive threads: any call may run at any time
LoopAllowsAny(holder, who) == TRUE

\* The asyncio event loop (asyncio.run, line 423) runs one coroutine at a
\* time, from one await that suspends (line 291) to the next: who (a call,
\* or 0 for a call that is to start or to resume) may run when it is holder.
LoopAllows(holder, who) == holder = who

\* line 217: if not self.splunk_service
NeedsConnect(svc) == svc = 0

\* ReturnOnConnectFailure ignoring the result of the connect
ReturnOnConnectFailureIgnored(ok) == FALSE

\* line 218: if not self.connect_to_splunk(): return ...
ReturnOnConnectFailure(ok) == ~ok

(***************************************************************************)
(* main(), lines 407-419: one connect at startup, its result ignored.      *)
(***************************************************************************)
StartupConnect ==
    /\ mainpc = "startup"
    /\ \E ok \in ConnectOutcomes : connect_to_splunk(ok)
    /\ mainpc' = "serving"
    /\ UNCHANGED <<sessionLost, running, pc, name, arguments, compiled, job,
                   fetched, ret, failure, trace>>

(***************************************************************************)
(* The server invokes call_tool(name, arguments).                          *)
(***************************************************************************)
BeginCall(c, in) ==
    /\ mainpc = "serving"
    /\ LoopAllows(running, 0)
    /\ pc[c] = "idle"
    /\ pc' = [pc EXCEPT ![c] = "ensure"]
    /\ running' = c
    /\ name' = [name EXCEPT ![c] = in.name]
    /\ arguments' = [arguments EXCEPT ![c] = in.arguments]
    /\ trace' = [trace EXCEPT ![c] = [NoTrace EXCEPT !.entrySvc = splunk_service,
                                                      !.retry = sessionLost]]
    /\ UNCHANGED <<mainpc, splunk_service, sessions, alive, sessionLost,
                   compiled, job, fetched, ret, failure>>

\* lines 216-217: ensure connection, the test of the cached session
EnsureConnection(c) ==
    /\ LoopAllows(running, c)
    /\ pc[c] = "ensure"
    /\ pc' = [pc EXCEPT ![c] = IF NeedsConnect(splunk_service) THEN "connect"
                                ELSE "dispatch"]
    /\ UNCHANGED <<mainpc, splunk_service, sessions, alive, sessionLost, running,
                   name, arguments, compiled, job, fetched, ret, failure, trace>>

\* lines 218-222: the connect made by the call, a plain (blocking) call
ConnectLazily(c) ==
    /\ LoopAllows(running, c)
    /\ pc[c] = "connect"
    /\ \E ok \in ConnectOutcomes :
         /\ connect_to_splunk(ok)
         /\ trace' = [trace EXCEPT
                ![c].connects = Bump(@, MaxOps),
                ![c].connected = IF ok THEN "ok" ELSE "failed"]
         /\ IF ReturnOnConnectFailure(ok)
            THEN Return(c, ConnectErrorText, "connectivity")
            ELSE /\ pc' = [pc EXCEPT ![c] = "dispatch"]
                 /\ UNCHANGED <<ret, failure, running>>
    /\ UNCHANGED <<mainpc, sessionLost, name, arguments, compiled, job, fetched>>

\* lines 224-270: the if/elif chain on the tool name, up to the call of
\* search_splunk made by the tool's wrapper
Dispatch(c) ==
    /\ LoopAllows(running, c)
    /\ pc[c] = "dispatch"
    /\ IF name[c] \notin ToolNames
       THEN /\ Return(c, UnknownToolText(name[c]), "validation")
            /\ UNCHANGED <<compiled, sessionLost>>
       ELSE IF ~arguments[c].isMap
       THEN /\ CallToolExcept(c, MsgNoGet, "validation")
            /\ UNCHANGED compiled
       ELSE /\ compiled' = [compiled EXCEPT ![c] = Compile(name[c], arguments[c])]
            /\ pc' = [pc EXCEPT ![c] = "submit"]
            /\ UNCHANGED <<ret, failure, running, sessionLost>>
    /\ UNCHANGED <<mainpc, splunk_service, sessions, alive, name, arguments,
                   job, fetched, trace>>

\* lines 280-287: job = self.splunk_service.jobs.create(query, **kwargs)
Submit(c) ==
    /\ LoopAllows(running, c)
    /\ pc[c] = "submit"
    /\ IF splunk_service = 0
       THEN /\ SearchExcept(c, MsgNoJobs, "connectivity")
            /\ UNCHANGED <<job, trace>>
       ELSE /\ trace' = [trace EXCEPT ![c].creates = Bump(@, MaxOps)]
            /\ IF splunk_service \notin alive
               THEN /\ SearchExcept(c, MsgConnLost, "connectivity")
                    /\ UNCHANGED job
               ELSE \E accepted \in BOOLEAN :
                      IF accepted
                      THEN /\ job' = [job EXCEPT ![c] =
                                  [exists |-> TRUE, sess |-> splunk_service,
                                   done |-> FALSE]]
                           /\ pc' = [pc EXCEPT ![c] = "poll"]
                           /\ UNCHANGED <<ret, failure, running, sessionLost>>
                      ELSE /\ SearchExcept(c, MsgBadQuery, "backend")
                           /\ UNCHANGED job
    /\ UNCHANGED <<mainpc, splunk_service, sessions, alive, name, arguments,
                   compiled, fetched>>

\* ExitsLoop without the wait: the results are fetched after the first poll
ExitsLoopAlways(done) == TRUE

\* ExitsLoop with the test inverted
ExitsLoopInverted(done) == ~done

\* line 290: while not job.is_done(); done is what is_done() returned
ExitsLoop(done) == done

\* line 290: while not job.is_done()
Poll(c) ==
    /\ LoopAllows(running, c)
    /\ pc[c] = "poll"
    /\ IF job[c].sess \notin alive
       THEN /\ SearchExcept(c, MsgConnLost, "connectivity")
            /\ trace' = [trace EXCEPT ![c].polls = Bump(@, MaxPolls)]
       ELSE IF ExitsLoop(job[c].done)
       THEN /\ pc' = [pc EXCEPT ![c] = "fetch"]
            /\ trace' = [trace EXCEPT ![c].polls = Bump(@, MaxPolls),
                                      ![c].sawDone = job[c].done]
            /\ UNCHANGED <<ret, failure, running, sessionLost>>
       ELSE \* line 291: await asyncio.sleep(0.5) gives up the event loop
            /\ pc' = [pc EXCEPT ![c] = "sleeping"]
            /\ running' = 0
            /\ trace' = [trace EXCEPT ![c].polls = Bump(@, MaxPolls),
                                      ![c].sawDone = job[c].done,
                                      ![c].sleeps = Bump(@, MaxPolls)]
            /\ UNCHANGED <<ret, failure, sessionLost>>
    /\ UNCHANGED <<mainpc, splunk_service, sessions, alive, name, arguments,
                   compiled, job, fetched>>

\* line 291: the sleep is over and the event loop resumes the call
Wake(c) ==
    /\ LoopAllows(running, 0)
    /\ pc[c] = "sleeping"
    /\ pc' = [pc EXCEPT ![c] = "poll"]
    /\ running' = c
    /\ UNCHANGED <<mainpc, splunk_service, sessions, alive, sessionLost, name,
                   arguments, compiled, job, fetched, ret, failure, trace>>

\* lines 294-311: fetch the results, parse them, build the envelope; the
\* backend answers with one of payloads
FetchFrom(c, payloads) ==
    /\ LoopAllows(running, c)
    /\ pc[c] = "fetch"
    /\ trace' = [trace EXCEPT ![c].fetches = Bump(@, MaxOps)]
    /\ IF job[c].sess \notin alive
       THEN /\ SearchExcept(c, MsgConnLost, "connectivity")
            /\ UNCHANGED fetched
       ELSE \E raw \in payloads :
              /\ fetched' = [fetched EXCEPT ![c] = raw]
              /\ IF ~raw.wellFormed
                 THEN SearchExcept(c, MsgBadJson, "parse")
                 ELSE /\ Return(c, FormatResults(compiled[c], raw), "none")
                      /\ UNCHANGED sessionLost
    /\ UNCHANGED <<mainpc, splunk_service, sessions, alive, name, arguments,
                   compiled, job>>

Fetch(c) == FetchFrom(c, BackendPayloads)

\* the server sends the payload to the client; the call is over
Deliver(c) ==
    /\ pc[c] = "returned"
    /\ pc' = [pc EXCEPT ![c] = "idle"]
    /\ name' = [name EXCEPT ![c] = ""]
    /\ arguments' = [arguments EXCEPT ![c] = ArgNone]
    /\ compiled' = [compiled EXCEPT ![c] = NoQuery]
    /\ job' = [job EXCEPT ![c] = NoJob]
    /\ fetched' = [fetched EXCEPT ![c] = NoRaw]
    /\ ret' = [ret EXCEPT ![c] = NoPayload]
    /\ failure' = [failure EXCEPT ![c] = "none"]
    /\ trace' = [trace EXCEPT ![c] = NoTrace]
    /\ UNCHANGED <<mainpc, splunk_service, sessions, alive, sessionLost, running>>

(***************************************************************************)
(* The backend.                                                            *)
(***************************************************************************)
\* the search job of call c finishes
JobCompletes(c) ==
    /\ job[c].exists
    /\ ~job[c].done
    /\ job[c].sess \in alive
    /\ job' = [job EXCEPT ![c].done = TRUE]
    /\ UNCHANGED <<mainpc, splunk_service, sessions, alive, sessionLost, running,
                   pc, name, arguments, compiled, fetched, ret, failure, trace>>

\* the connection behind session s dies; every later use of it raises
SessionDies(s) ==
    /\ s \in alive
    /\ alive' = alive \ {s}
    /\ UNCHANGED <<mainpc, splunk_service, sessions, sessionLost, running, pc,
                   name, arguments, compiled, job, fetched, ret, failure, trace>>

(***************************************************************************)
(* The reference scheduling (one tool call at a time): a call begins only  *)
(* when no other call is in progress.                                      *)
(***************************************************************************)
NoCallInProgress == \A d \in Calls : pc[d] = "idle"

Next ==
    \/ StartupConnect
    \/ \E c \in Calls, in \in CallInputs : NoCallInProgress /\ BeginCall(c, in)
    \/ \E c \in Calls : EnsureConnection(c)
    \/ \E c \in Calls : ConnectLazily(c)
    \/ \E c \in Calls : Dispatch(c)
    \/ \E c \in Calls : Submit(c)
    \/ \E c \in Calls : Poll(c)
    \/ \E c \in Calls : Wake(c)
    \/ \E c \in Calls : Fetch(c)
    \/ \E c \in Calls : Deliver(c)
    \/ \E c \in Calls : JobCompletes(c)
    \/ \E s \in 1..MaxSessions : SessionDies(s)

Spec == Init /\ [][Next]_vars

(***************************************************************************)
(* Fairness.  The event loop runs a call that can take a step, and a sleep *)
(* ends (lines 290-291, asyncio.run at line 423); the backend finishes a   *)
(* job it has accepted while its session lives.  Nothing is assumed of the *)
(* clients, of connect or of the death of a session.                       *)
(***************************************************************************)
CallStep(c) ==
    \/ EnsureConnection(c)
    \/ ConnectLazily(c)
    \/ Dispatch(c)
    \/ Submit(c)
    \/ Poll(c)
    \/ Wake(c)
    \/ Fetch(c)

Fairness == \A c \in Calls : WF_vars(CallStep(c)) /\ WF_vars(JobCompletes(c))

SpecFair == Spec /\ Fairness

(***************************************************************************)
(* Concurrent scheduling: the server starts a call while others are in     *)
(* progress, whenever the event loop is free.                              *)
(***************************************************************************)
ConcurrentInputs ==
    { Input("search_splunk", Args1("query", PyStr("index=main error"))),
      Input("restart_splunk", Args0) }

ConcurrentPayloads ==
    { Raw(FALSE, FALSE, <<>>), Raw(TRUE, TRUE, <<>>),
      Raw(TRUE, TRUE, RowList(2, TRUE)) }

FetchConcurrent(c) == FetchFrom(c, ConcurrentPayloads)

NextConcurrent ==
    \/ StartupConnect
    \/ \E c \in Calls, in \in ConcurrentInputs : BeginCall(c, in)
    \/ \E c \in Calls : EnsureConnection(c)
    \/ \E c \in Calls : ConnectLazily(c)
    \/ \E c \in Calls : Dispatch(c)
    \/ \E c \in Calls : Submit(c)
    \/ \E c \in Calls : Poll(c)
    \/ \E c \in Calls : Wake(c)
    \/ \E c \in Calls : FetchConcurrent(c)
    \/ \E c \in Calls : Deliver(c)
    \/ \E c \in Calls : JobCompletes(c)
    \/ \E s \in 1..MaxSessions : SessionDies(s)

SpecConcurrent == Init /\ [][NextConcurrent]_vars

(***************************************************************************)
(* Vocabulary of the claims.                                               *)
(***************************************************************************)
Active(c) == pc[c] # "idle"
Returned(c) == pc[c] = "returned"

\* the ErrorPayload {error: <message>}
IsErrorPayload(p) == p.kind = "json" /\ p.doc.keys = {"error"}

\* the argument map lacks a parameter the tool's schema requires
MissingRequired(c) ==
    /\ arguments[c].isMap
    /\ \E k \in Required(name[c]) : k \notin DOMAIN arguments[c].m

\* the argument map gives an enumerated parameter a value outside its enum
InvalidEnum(c) ==
    /\ arguments[c].isMap
    /\ \E k \in EnumParam(name[c]) :
         /\ k \in DOMAIN arguments[c].m
         /\ \/ arguments[c].m[k].t # "str"
            \/ arguments[c].m[k].s \notin EnumValues(name[c])

\* the rows the backend returned to call c
BackendRows(c) == IF fetched[c].hasResults THEN fetched[c].rows ELSE <<>>

(***************************************************************************)
(* C1: a call that lacks a required parameter submits no job              *)
(* (jobs.create is not called) and, unless its connect failed, returns an  *)
(* ErrorPayload for the argument validation failure.                       *)
(* Fails: call_tool passes arguments.get(k), that is None, on to the       *)
(* wrapper, and the query is submitted.                                    *)
(***************************************************************************)
C1_MissingRequiredNoBackend ==
    \A c \in Calls :
        MissingRequired(c) =>
            /\ trace[c].creates = 0
            /\ (Returned(c) /\ trace[c].connected # "failed") =>
                   (IsErrorPayload(ret[c]) /\ failure[c] = "validation")

(***************************************************************************)
(* C2: a call whose enumerated argument is outside the allowed set submits *)
(* no job and, unless its connect failed, returns an ErrorPayload for the  *)
(* argument validation failure.                                            *)
(* Fails: no enum is ever checked.                                         *)
(***************************************************************************)
C2_InvalidEnumNoBackend ==
    \A c \in Calls :
        InvalidEnum(c) =>
            /\ trace[c].creates = 0
            /\ (Returned(c) /\ trace[c].connected # "failed") =>
                   (IsErrorPayload(ret[c]) /\ failure[c] = "validation")

(***************************************************************************)
(* C3: every call ended by a failure, of any class, returns a payload of   *)
(* the one shape {error: <message>}.                                       *)
(* Fails: a failed connect, an unknown tool and an exception caught by     *)
(* call_tool itself each return a plain sentence.                          *)
(***************************************************************************)
C3_UniformErrorShape ==
    \A c \in Calls :
        (Returned(c) /\ failure[c] # "none") => IsErrorPayload(ret[c])

(***************************************************************************)
(* C4: a call whose connection attempt failed returns the connection error *)
(* payload and has compiled no query, created no job, polled nothing and   *)
(* fetched nothing.                                                        *)
(***************************************************************************)
C4_ConnectFailureStopsCall ==
    \A c \in Calls :
        trace[c].connected = "failed" =>
            /\ Returned(c)
            /\ ret[c] = ConnectErrorText
            /\ trace[c].entrySvc = 0
            /\ compiled[c] = NoQuery
            /\ ~job[c].exists
            /\ trace[c].creates = 0
            /\ trace[c].polls = 0
            /\ trace[c].fetches = 0

C4_Witness ==
    \E c \in Calls :
        /\ trace[c].connected = "failed"
        /\ Returned(c)
        /\ name[c] \in ToolNames
        /\ arguments[c].isMap

(***************************************************************************)
(* C5 as claimed: every result envelope has a results list with            *)
(* len(results) = min(event_count, 20), also when the backend returned no  *)
(* rows.  Fails: for an empty row list the envelope has no results key.    *)
(***************************************************************************)
C5_EveryEnvelopeHasResults ==
    \A c \in Calls :
        (Returned(c) /\ failure[c] = "none") =>
            /\ ret[c].doc.event_count >= 0
            /\ "results" \in ret[c].doc.keys
            /\ Len(ret[c].doc.results) = Min(ret[c].doc.event_count, MAX_ROWS)

(***************************************************************************)
(* C5 as amended: in every result envelope event_count is the length of    *)
(* the backend's row list before truncation (so never negative); when that *)
(* list is not empty the envelope has a results list of                    *)
(* min(event_count, 20) rows, the first rows of the backend's list in the  *)
(* backend's order; when it is empty (or the payload has no results key)   *)
(* the envelope has event_count 0, a message and no results key.           *)
(***************************************************************************)
C5_EnvelopeShape ==
    \A c \in Calls :
        (Returned(c) /\ failure[c] = "none") =>
            LET d == ret[c].doc
                rows == BackendRows(c)
            IN /\ ret[c].kind = "json"
               /\ d.event_count >= 0
               /\ d.event_count = Len(rows)
               /\ IF rows # <<>>
                  THEN /\ d.keys = {"query", "event_count", "time_range", "results"}
                       /\ Len(d.results) = Min(d.event_count, MAX_ROWS)
                       /\ \A i \in 1..Len(d.results) : d.results[i] = rows[i]
                  ELSE /\ d.keys = {"query", "event_count", "message"}
                       /\ d.message = "No results found"

C5_Witness ==
    \E c \in Calls :
        /\ Returned(c)
        /\ failure[c] = "none"
        /\ Len(BackendRows(c)) > MAX_ROWS
        /\ BackendRows(c)[1] > BackendRows(c)[2]
        /\ Len(ret[c].doc.results) = MAX_ROWS

(***************************************************************************)
(* C6: at most one session is ever established, and a call that finds a    *)
(* session cached makes no connect attempt and submits its job on that     *)
(* same session.                                                           *)
(***************************************************************************)
C6_SessionCached ==
    /\ sessions <= 1
    /\ \A c \in Calls :
         (Active(c) /\ trace[c].entrySvc # 0) =>
             /\ trace[c].connects = 0
             /\ splunk_service = trace[c].entrySvc
             /\ job[c].exists => job[c].sess = trace[c].entrySvc

C6_Witness ==
    \E c \in Calls :
        /\ trace[c].entrySvc # 0
        /\ job[c].exists
        /\ Returned(c)

(***************************************************************************)
(* C7: a call made after a call failed on a dead session has attempted a   *)
(* new connect by the time it submits its query.                           *)
(* Fails: self.splunk_service is never reset, so the retry finds it set    *)
(* and submits on the dead session without connecting.                     *)
(***************************************************************************)
C7_RetryReconnects ==
    \A c \in Calls :
        (trace[c].retry /\ trace[c].entrySvc \notin alive /\ trace[c].creates >= 1) =>
            trace[c].connects >= 1

(***************************************************************************)
(* C8: a call that finds no session attempts the connection exactly once;  *)
(* when the attempt fails it returns the one connectivity error payload,   *)
(* whatever the tool and arguments; when it succeeds the session is set    *)
(* and the call goes on; and every call of a registered tool with an       *)
(* argument map whose connect did not fail submits its query.              *)
(***************************************************************************)
C8_ConnectErrorUntilSuccess ==
    \A c \in Calls :
        /\ (Active(c) /\ trace[c].entrySvc = 0 /\ pc[c] \notin {"ensure", "connect"}) =>
               /\ trace[c].connects = 1
               /\ trace[c].connected = "failed" =>
                      (Returned(c) /\ ret[c] = ConnectErrorText)
               /\ trace[c].connected = "ok" =>
                      (splunk_service # 0 /\ ret[c] # ConnectErrorText)
        /\ (Returned(c) /\ splunk_service = 0) => ret[c] = ConnectErrorText
        /\ (Returned(c) /\ trace[c].connected # "failed"
              /\ name[c] \in ToolNames /\ arguments[c].isMap) =>
               trace[c].creates = 1

C8_Witness ==
    \E c \in Calls :
        /\ sessions = 1
        /\ trace[c].entrySvc = 0
        /\ trace[c].connected = "ok"
        /\ trace[c].creates = 1
        /\ mainpc = "serving"

(***************************************************************************)
(* C9: a call of a tool that is not registered makes no connection attempt *)
(* and submits no job, and returns the unknown-tool payload whatever the   *)
(* session state.                                                          *)
(* Fails: call_tool ensures the connection before it looks at the name.    *)
(***************************************************************************)
C9_UnknownToolLocal ==
    \A c \in Calls :
        (Active(c) /\ name[c] \notin ToolNames) =>
            /\ trace[c].connects = 0
            /\ trace[c].creates = 0
            /\ Returned(c) => ret[c] = UnknownToolText(name[c])

(***************************************************************************)
(* C10: within one call there is at most one connection attempt, one job   *)
(* submission and one result fetch, and a job is fetched only after it was *)
(* created; a call that failed has returned a payload that is no result    *)
(* envelope.                                                               *)
(***************************************************************************)
C10_NoRetries ==
    \A c \in Calls :
        /\ trace[c].connects <= 1
        /\ trace[c].creates <= 1
        /\ trace[c].fetches <= 1
        /\ trace[c].fetches <= trace[c].creates
        /\ failure[c] # "none" =>
               (Returned(c) /\ "event_count" \notin ret[c].doc.keys)

C10_Witness ==
    \E c \in Calls :
        /\ Returned(c)
        /\ failure[c] = "backend"
        /\ trace[c].creates = 1
        /\ trace[c].connects = 1

\* call c is a get_security_metrics call with an argument map whose query
\* has been compiled
MetricsCompiled(c) ==
    /\ name[c] = "get_security_metrics"
    /\ arguments[c].isMap
    /\ compiled[c] # NoQuery

\* the metric_type the client gave: "" when the key is absent
GivenMetricType(c) ==
    IF "metric_type" \in DOMAIN arguments[c].m
    THEN arguments[c].m["metric_type"].s
    ELSE ""

C12_SubmitPollFetchOrder ==
    \A c \in Calls :
        /\ trace[c].polls >= 1 => (trace[c].creates = 1 /\ job[c].exists)
        /\ trace[c].sleeps <= trace[c].polls
        /\ trace[c].polls <= trace[c].sleeps + 1
        /\ pc[c] = "sleeping" => (~trace[c].sawDone /\ trace[c].fetches = 0)
        /\ pc[c] = "fetch" => (trace[c].sawDone /\ trace[c].fetches = 0)
        /\ trace[c].fetches <= 1
        /\ trace[c].fetches = 1 =>
               /\ trace[c].sawDone
               /\ trace[c].polls >= 1
               /\ job[c].exists
               /\ job[c].done
        /\ (Returned(c) /\ failure[c] = "none") =>
               (trace[c].sawDone /\ trace[c].fetches = 1)

C12_Witness ==
    \E c \in Calls :
        /\ Returned(c)
        /\ failure[c] = "none"
        /\ trace[c].sleeps >= 1
        /\ trace[c].polls >= 2
        /\ trace[c].fetches = 1
        /\ "results" \in ret[c].doc.keys

\* call c is in the wait loop of lines 290-291
InPollLoop(c) == pc[c] \in {"poll", "sleeping"}

(***************************************************************************)
(* C13: the poll loop has no timeout and no cancellation.  A call leaves   *)
(* the loop only by a poll that finds the job done (and goes on to fetch)  *)
(* or by a poll that raises (and returns the error); while the job is not  *)
(* done and no poll raises it stays in the loop, however many polls it has *)
(* made.  With a backend that finishes the jobs of a live session, every   *)
(* call that has submitted a job eventually returns a payload.             *)
(***************************************************************************)
C13_PollLoopExit ==
    /\ [][\A c \in Calls :
            (InPollLoop(c) /\ ~InPollLoop(c)') =>
                \/ pc'[c] = "fetch" /\ job[c].done /\ job[c].sess \in alive
                \/ /\ pc'[c] = "returned"
                   /\ ret'[c] = SearchErrorJson(MsgConnLost)
                   /\ job[c].sess \notin alive]_vars
    /\ \A c \in Calls : job[c].exists ~> Returned(c)

C13_Witness ==
    \E c \in Calls :
        /\ Returned(c)
        /\ failure[c] = "none"
        /\ trace[c].polls = MaxPolls
        /\ trace[c].sleeps = MaxPolls

\* call c is running code of call_tool or search_splunk between two
\* suspension points
OnLoop(c) == pc[c] \in {"ensure", "connect", "dispatch", "submit", "poll", "fetch"}

(***************************************************************************)
(* C14: with several calls in progress at once, a call that is between     *)
(* two suspension points holds the event loop, so no two calls run at once *)
(* and the others wait in the sleep of the poll loop or have returned;     *)
(* the session a call found missing is still missing when that call        *)
(* connects; no two calls in progress have both established a session; and *)
(* startup and the tool calls together establish at most one session.      *)
(***************************************************************************)
C14_AtomicCheckThenCreate ==
    /\ sessions <= 1
    /\ \A c \in Calls : OnLoop(c) => running = c
    /\ \A c \in Calls : pc[c] = "connect" => splunk_service = 0
    /\ \A c, d \in Calls :
         (c # d /\ trace[c].connected = "ok") => trace[d].connected # "ok"

C14_Witness ==
    \E c, d \in Calls :
        /\ c # d
        /\ pc[c] = "sleeping"
        /\ trace[c].connected = "ok"
        /\ pc[d] = "submit"
        /\ trace[d].entrySvc = splunk_service
        /\ trace[d].connects = 0

=============================================================================
